---- MODULE Spec2Model ----
(***************************************************************************)
(* The planning risk dashboard of streamlit_planning_dashboard.py: the     *)
(* three scoring functions (calculate_policy_weights, auto_assess_site,    *)
(* planning_balance_engine) and the session that main() keeps in           *)
(* st.session_state.                                                       *)
(*                                                                         *)
(* Representation of Python values                                         *)
(*   - a dict is a function whose DOMAIN is the set of keys present;       *)
(*   - a float that is a multiple of 0.01 is the integer number of         *)
(*     hundredths (weight 1.4 is 140, benefit_score 11.2 is 1120);         *)
(*   - text the code searches (titles, descriptions, topic names) is a     *)
(*     sequence of one-character strings; text it only compares whole or   *)
(*     stores is a string, with an emoji written as its code points        *)
(*     ("U+26A0 U+FE0F Marginal");                                         *)
(*   - an "impact" value is tagged, [num |-> n] for a number and           *)
(*     [str |-> s] for a non-numeric value, because Python decides at run  *)
(*     time whether it can be added.                                       *)
(***************************************************************************)
EXTENDS Integers, Sequences, FiniteSets, TLC

VARIABLES
    site_meta,            \* st.session_state.site_meta
    policy_weights,       \* st.session_state.policy_weights
    planning_context,     \* st.session_state.planning_context
    current_assessment,   \* st.session_state.current_assessment
    call,                 \* a direct call of one scoring function: its name and arguments
    pc,                   \* "idle" | "called" | "returned"
    ret                   \* what the call returned (or raised)

vars == <<site_meta, policy_weights, planning_context, current_assessment, call, pc, ret>>

session_vars == <<site_meta, policy_weights, planning_context, current_assessment>>

call_vars == <<call, pc, ret>>

-----------------------------------------------------------------------------
(* Python values *)

\* None, where the other values of the slot are dicts
None == [none |-> TRUE]

\* None, where the other values of the slot are strings
NoneStr == "<None>"

\* d.get(k) for a string-valued field: None when the key is missing
Get(d, k) == IF k \in DOMAIN d THEN d[k] ELSE NoneStr

\* the truth value of d.get(k) for a bool-valued field: a missing key is None, falsy
Truthy(d, k) == k \in DOMAIN d /\ d[k] = TRUE

\* d.get(k, default)
GetOr(d, k, default) == IF k \in DOMAIN d THEN d[k] ELSE default

\* the dict d without the keys whose value is the marker absent
DropKeys(d, absent) == [k \in {x \in DOMAIN d : d[x] # absent} |-> d[k]]

Min(a, b) == IF a <= b THEN a ELSE b

Max(a, b) == IF a >= b THEN a ELSE b

Abs(n) == IF n < 0 THEN -n ELSE n

\* sequences over S of length 0..n
SeqsUpTo(S, n) == UNION {[1..k -> S] : k \in 0..n}

-----------------------------------------------------------------------------
(* The options of the sidebar's policy-context widgets, and the plain values
   the rule tables compare with *)

FiveYearSupplyOptions ==
    <<"U+2705 Yes - Demonstrated", "U+26A0 U+FE0F Marginal", "U+274C No - Not demonstrated">>

HousingDeliveryOptions == <<">95%", "75-95%", "<75%">>

LocalPlanStatusOptions ==
    <<"U+1F4C5 Adopted (<5 years)", "U+1F4CB Emerging", "U+1F4DC Out-of-date">>

BrownfieldPolicyOptions ==
    <<"U+1F3AF Strong preference", "U+2696 U+FE0F Moderate preference", "U+1F4C8 No specific policy">>

HeritageContextOptions ==
    <<"U+1F3DB U+FE0F High sensitivity", "U+2696 U+FE0F Moderate sensitivity", "U+1F4CA Low sensitivity">>

Range(s) == {s[i] : i \in DOMAIN s}

-----------------------------------------------------------------------------
(* calculate_policy_weights *)

five_year_supply_bump(planning_context_) ==
    IF Get(planning_context_, "five_year_supply") = "No" THEN 40
    ELSE IF Get(planning_context_, "five_year_supply") = "Marginal" THEN 20
    ELSE 0

housing_delivery_bump(planning_context_) ==
    IF Get(planning_context_, "housing_delivery") = "<75%" THEN 30
    ELSE IF Get(planning_context_, "housing_delivery") = "75-95%" THEN 15
    ELSE 0

local_plan_status_bump(planning_context_) ==
    IF Get(planning_context_, "local_plan_status") \in {"Emerging", "Out-of-date"} THEN 20
    ELSE 0

brownfield_policy_bump_swapped(planning_context_) ==
    IF Get(planning_context_, "brownfield_policy") = "Strong preference" THEN 15
    ELSE IF Get(planning_context_, "brownfield_policy") = "Moderate preference" THEN 30
    ELSE 0

brownfield_policy_bump(planning_context_) ==
    IF Get(planning_context_, "brownfield_policy") = "Strong preference" THEN 30
    ELSE IF Get(planning_context_, "brownfield_policy") = "Moderate preference" THEN 15
    ELSE 0

heritage_context_bump(planning_context_) ==
    IF Get(planning_context_, "heritage_context") = "High sensitivity" THEN 40
    ELSE IF Get(planning_context_, "heritage_context") = "Moderate sensitivity" THEN 20
    ELSE 0

\* the lower limit typed as 5 instead of 0.5
cap_weight_floor_typo(weight) == Max(Min(weight, 200), 500)

\* weights[key] = min(weights[key], 2.0); weights[key] = max(weights[key], 0.5)
cap_weight(weight) == Max(Min(weight, 200), 50)

calculate_policy_weights(planning_context_) ==
    LET weights == [housing    |-> 100 + five_year_supply_bump(planning_context_)
                                       + housing_delivery_bump(planning_context_)
                                       + local_plan_status_bump(planning_context_),
                    brownfield |-> 100 + brownfield_policy_bump(planning_context_),
                    heritage   |-> 100 + heritage_context_bump(planning_context_)]
    IN  [key \in DOMAIN weights |-> cap_weight(weights[key])]

-----------------------------------------------------------------------------
(* Text *)

UpperToLower ==
    [A |-> "a", B |-> "b", C |-> "c", D |-> "d", E |-> "e", F |-> "f", G |-> "g",
     H |-> "h", I |-> "i", J |-> "j", K |-> "k", L |-> "l", M |-> "m", N |-> "n",
     O |-> "o", P |-> "p", Q |-> "q", R |-> "r", S |-> "s", T |-> "t", U |-> "u",
     V |-> "v", W |-> "w", X |-> "x", Y |-> "y", Z |-> "z"]

\* str.lower()
Lower(s) == [i \in DOMAIN s |-> IF s[i] \in DOMAIN UpperToLower THEN UpperToLower[s[i]] ELSE s[i]]

\* needle in hay, for two str
Contains(needle, hay) ==
    \E i \in 0..(Len(hay) - Len(needle)) : SubSeq(hay, i + 1, i + Len(needle)) = needle

Digits == <<"0", "1", "2", "3", "4", "5", "6", "7", "8", "9">>

RECURSIVE Str(_)
\* str(n) of a natural number, as an f-string formats it
Str(n) == IF n < 10 THEN <<Digits[n + 1]>> ELSE Str(n \div 10) \o <<Digits[(n % 10) + 1]>>

\* the characters of the topic names that key the weights
Chars ==
    [housing    |-> <<"h","o","u","s","i","n","g">>,
     brownfield |-> <<"b","r","o","w","n","f","i","e","l","d">>,
     heritage   |-> <<"h","e","r","i","t","a","g","e">>]

-----------------------------------------------------------------------------
(* auto_assess_site *)

Num(n) == [num |-> n]

flood_risk(flood_zone) ==
    [title      |-> <<"F","l","o","o","d"," ","r","i","s","k">>,
     desc       |-> <<"S","i","t","e"," ","l","i","e","s"," ","i","n"," ","F","l","o","o","d"," ",
                 "Z","o","n","e"," ">>
                    \o <<flood_zone>> \o <<".">>,
     impact     |-> Num(8),
     mitigation |-> "Sequential test; raise finished floor levels; SuDS."]

heritage_asset_adjacency ==
    [title      |-> <<"H","e","r","i","t","a","g","e"," ","a","s","s","e","t"," ","a","d","j","a",
                 "c","e","n","c","y">>,
     desc       |-> <<"C","l","o","s","e"," ","t","o"," ","l","i","s","t","e","d"," ","b","u","i",
                 "l","d","i","n","g"," ","o","r"," ","c","o","n","s","e","r","v","a","t","i",
                 "o","n"," ","a","r","e","a",".">>,
     impact     |-> Num(7),
     mitigation |-> "Heritage Impact Assessment; avoid harm to setting."]

green_belt_harm ==
    [title      |-> <<"G","r","e","e","n"," ","B","e","l","t">>,
     desc       |-> <<"S","i","t","e"," ","i","s"," ","i","n"," ","t","h","e"," ","G","r","e","e",
                 "n"," ","B","e","l","t",".">>,
     impact     |-> Num(10),
     mitigation |-> "Very special circumstances required."]

contamination_risk_harm ==
    [title      |-> <<"C","o","n","t","a","m","i","n","a","t","i","o","n"," ","r","i","s","k">>,
     desc       |-> <<"L","i","k","e","l","y"," ","t","o"," ","r","e","q","u","i","r","e"," ","r",
                 "e","m","e","d","i","a","t","i","o","n"," ","w","o","r","k","s",".">>,
     impact     |-> Num(6),
     mitigation |-> "Site investigations and remediation."]

poor_access ==
    [title      |-> <<"P","o","o","r"," ","a","c","c","e","s","s"," ","/"," ","h","i","g","h","w",
                 "a","y","s"," ","i","m","p","a","c","t">>,
     desc       |-> <<"L","i","m","i","t","e","d"," ","a","c","c","e","s","s"," ","o","r"," ","c",
                 "o","n","s","t","r","a","i","n","e","d"," ","h","i","g","h","w","a","y"," ",
                 "n","e","t","w","o","r","k",".">>,
     impact     |-> Num(5),
     mitigation |-> "Transport Assessment and junction mitigation."]

low_obvious_policy_conflict ==
    [title      |-> <<"L","o","w"," ","o","b","v","i","o","u","s"," ","p","o","l","i","c","y"," ",
                 "c","o","n","f","l","i","c","t">>,
     desc       |-> <<"N","o"," ","h","i","g","h","-","l","e","v","e","l"," ","c","o","n","s","t",
                 "r","a","i","n","t","s"," ","d","e","t","e","c","t","e","d",".">>,
     impact     |-> Num(1)]

brownfield_regeneration ==
    [title      |-> <<"B","r","o","w","n","f","i","e","l","d"," ","r","e","g","e","n","e","r","a",
                 "t","i","o","n">>,
     desc       |-> <<"R","e","-","u","s","e"," ","o","f"," ","p","r","e","v","i","o","u","s","l",
                 "y"," ","d","e","v","e","l","o","p","e","d"," ","l","a","n","d"," ","s","u",
                 "p","p","o","r","t","s"," ","N","P","P","F"," ","o","b","j","e","c","t","i",
                 "v","e","s",".">>,
     impact     |-> Num(6)]

housing_delivery_benefit ==
    [title      |-> <<"H","o","u","s","i","n","g"," ","d","e","l","i","v","e","r","y">>,
     desc       |-> <<"L","o","c","a","l"," ","a","u","t","h","o","r","i","t","y"," ","f","a","i",
                 "l","i","n","g"," ","5","Y","H","L","S"," ","o","r"," ","h","i","g","h"," ",
                 "h","o","u","s","i","n","g"," ","n","e","e","d",".">>,
     impact     |-> Num(8)]

good_access_benefit ==
    [title      |-> <<"G","o","o","d"," ","a","c","c","e","s","s"," ","t","o"," ","p","u","b","l",
                 "i","c"," ","t","r","a","n","s","p","o","r","t">>,
     desc       |-> <<"C","l","o","s","e"," ","t","o"," ","p","u","b","l","i","c"," ","t","r","a",
                 "n","s","p","o","r","t"," ","l","i","n","k","s",".">>,
     impact     |-> Num(3)]

affordable_housing_offered(affordable_pct) ==
    [title      |-> <<"A","f","f","o","r","d","a","b","l","e"," ","h","o","u","s","i","n","g"," ",
                 "o","f","f","e","r","e","d">>,
     desc       |-> Str(affordable_pct) \o
                    <<"%"," ","a","f","f","o","r","d","a","b","l","e"," ","h","o","m","e","s",".">>,
     impact     |-> Num(5)]

development_potential ==
    [title      |-> <<"D","e","v","e","l","o","p","m","e","n","t"," ","p","o","t","e","n","t","i",
                 "a","l">>,
     desc       |-> <<"P","r","o","p","o","s","a","l"," ","w","o","u","l","d"," ","d","e","l","i",
                 "v","e","r"," ","d","e","v","e","l","o","p","m","e","n","t"," ","&"," ","l",
                 "o","c","a","l"," ","b","e","n","e","f","i","t","s",".">>,
     impact     |-> Num(2)]

\* the contamination test taken out of the brownfield branch
rule_harms_contamination_unnested(site_meta_) ==
    (IF Get(site_meta_, "flood_zone") \in {"2", "3"}
        THEN <<flood_risk(Get(site_meta_, "flood_zone"))>> ELSE <<>>)
    \o (IF Truthy(site_meta_, "adjacent_heritage") THEN <<heritage_asset_adjacency>> ELSE <<>>)
    \o (IF Truthy(site_meta_, "green_belt") THEN <<green_belt_harm>> ELSE <<>>)
    \o (IF Truthy(site_meta_, "contamination_risk") THEN <<contamination_risk_harm>> ELSE <<>>)
    \o (IF ~Truthy(site_meta_, "good_access") THEN <<poor_access>> ELSE <<>>)

\* the harms appended by the rules, in the order of the code
rule_harms(site_meta_) ==
    (IF Get(site_meta_, "flood_zone") \in {"2", "3"}
        THEN <<flood_risk(Get(site_meta_, "flood_zone"))>> ELSE <<>>)
    \o (IF Truthy(site_meta_, "adjacent_heritage") THEN <<heritage_asset_adjacency>> ELSE <<>>)
    \o (IF Truthy(site_meta_, "green_belt") THEN <<green_belt_harm>> ELSE <<>>)
    \o (IF Truthy(site_meta_, "brownfield") /\ Truthy(site_meta_, "contamination_risk")
        THEN <<contamination_risk_harm>> ELSE <<>>)
    \o (IF ~Truthy(site_meta_, "good_access") THEN <<poor_access>> ELSE <<>>)

\* the benefits appended by the rules, in the order of the code
rule_benefits(site_meta_) ==
    (IF Truthy(site_meta_, "brownfield") THEN <<brownfield_regeneration>> ELSE <<>>)
    \o (IF Get(site_meta_, "five_year_supply") \in {"No", "Marginal"}
        THEN <<housing_delivery_benefit>> ELSE <<>>)
    \o (IF ~Truthy(site_meta_, "good_access") THEN <<>> ELSE <<good_access_benefit>>)
    \o (IF GetOr(site_meta_, "affordable_pct", 0) >= 25
        THEN <<affordable_housing_offered(site_meta_["affordable_pct"])>> ELSE <<>>)

\* the defaults left out
default_harm_forgotten(harms) == harms

\* if not harms: harms.append(...)
default_harm(harms) == IF harms = <<>> THEN <<low_obvious_policy_conflict>> ELSE harms

\* if not benefits: benefits.append(...)
default_benefit(benefits) == IF benefits = <<>> THEN <<development_potential>> ELSE benefits

\* the tuple (harms, benefits) the function returns
auto_assess_site(site_meta_) ==
    [harms    |-> default_harm(rule_harms(site_meta_)),
     benefits |-> default_benefit(rule_benefits(site_meta_))]

-----------------------------------------------------------------------------
(* planning_balance_engine *)

\* x.get("impact", 0)
impact_of(x) == GetOr(x, "impact", Num(0))

\* whether Python can add the value to a number
IsNumber(v) == "num" \in DOMAIN v

RECURSIVE sum_impacts(_)
\* sum(x.get("impact", 0) for x in xs), in hundredths
sum_impacts(xs) ==
    IF xs = <<>> THEN 0
    ELSE sum_impacts(SubSeq(xs, 1, Len(xs) - 1)) + 100 * impact_of(xs[Len(xs)]).num

\* the test without .lower()
topic_matches_case_sensitive(key, benefit) == Contains(Chars[key], GetOr(benefit, "title", <<>>))

\* key in benefit.get("title", "").lower()
topic_matches(key, benefit) == Contains(Chars[key], Lower(GetOr(benefit, "title", <<>>)))

RECURSIVE weight_bonus(_, _, _)
\* the inner loop: what one benefit adds over the keys of local_policy_priority,
\* impact * (weight - 1.0) for each key that matches, in hundredths
weight_bonus(benefit, local_policy_priority, keys) ==
    IF keys = {} THEN 0
    ELSE LET key == CHOOSE k \in keys : TRUE
         IN  (IF topic_matches(key, benefit)
                 THEN impact_of(benefit).num * (local_policy_priority[key] - 100)
                 ELSE 0)
             + weight_bonus(benefit, local_policy_priority, keys \ {key})

RECURSIVE weighted_bonus(_, _)
\* the outer loop over the benefits
weighted_bonus(benefits, local_policy_priority) ==
    IF benefits = <<>> THEN 0
    ELSE weighted_bonus(SubSeq(benefits, 1, Len(benefits) - 1), local_policy_priority)
         + weight_bonus(benefits[Len(benefits)], local_policy_priority,
                        DOMAIN local_policy_priority)

\* if local_policy_priority: None and the empty dict are both false
weights_given(local_policy_priority) ==
    local_policy_priority # None /\ DOMAIN local_policy_priority # {}

\* the constant 20 left out
raw_of_no_offset(benefit_score, harm_score) == benefit_score - harm_score

\* raw = (benefit_score - harm_score) + 20, in hundredths
raw_of(benefit_score, harm_score) == (benefit_score - harm_score) + 2000

\* math.exp(-(raw / 15)) raises OverflowError when -(raw / 15) exceeds 709.78...,
\* the largest argument whose exponential is a double: raw <= -10646.75
exp_overflows(raw) == raw <= -1064675

\* RoundedLogistic[k] is the least raw, in hundredths, for which
\* int(round(1 / (1 + math.exp(-(raw / 15))) * 100)) >= k, for k in 1..100
RoundedLogistic ==
    <<-7939, -6276, -5495, -4975, -4582, -4265, -3999, -3768, -3564, -3381,
      -3214, -3060, -2918, -2786, -2661, -2543, -2432, -2325, -2224, -2126,
      -2032, -1942, -1855, -1770, -1688, -1608, -1530, -1454, -1379, -1306,
      -1235, -1165, -1096, -1028,  -961,  -895,  -830,  -766,  -702,  -639,
       -577,  -514,  -453,  -392,  -331,  -270,  -210,  -150,   -90,   -30,
         31,    91,   151,   211,   271,   332,   393,   454,   515,   578,
        640,   703,   767,   831,   896,   962,  1029,  1097,  1166,  1236,
       1307,  1380,  1455,  1531,  1609,  1689,  1771,  1856,  1943,  2033,
       2127,  2225,  2326,  2433,  2544,  2662,  2787,  2919,  3061,  3215,
       3382,  3565,  3769,  4000,  4266,  4583,  4976,  5496,  6277,  7940>>

\* int(round(mapped * 100)) for mapped = 1 / (1 + math.exp(-(raw / 15)))
rounded_percent(raw) == Cardinality({k \in DOMAIN RoundedLogistic : raw >= RoundedLogistic[k]})

\* the exponent's sign lost: mapped = 1 / (1 + math.exp(raw / 15))
score_of_sign_slip(raw) == Max(0, Min(100, rounded_percent(-raw)))

\* score = int(round(mapped * 100)); score = max(0, min(100, score))
score_of(raw) == Max(0, Min(100, rounded_percent(raw)))

\* the first tier tested with > instead of >=
risk_label_strict(score) ==
    IF score > 80 THEN [label |-> "Low Risk / Likely to Succeed", icon |-> "U+1F7E2"]
    ELSE IF score >= 60 THEN [label |-> "Medium Risk / Reasonable Chance", icon |-> "U+1F7E1"]
    ELSE IF score >= 40 THEN [label |-> "High Risk / Uncertain", icon |-> "U+1F7E0"]
    ELSE [label |-> "Very High Risk / Unlikely", icon |-> "U+1F534"]

\* the if/elif chain that sets label and icon
risk_label(score) ==
    IF score >= 80 THEN [label |-> "Low Risk / Likely to Succeed", icon |-> "U+1F7E2"]
    ELSE IF score >= 60 THEN [label |-> "Medium Risk / Reasonable Chance", icon |-> "U+1F7E1"]
    ELSE IF score >= 40 THEN [label |-> "High Risk / Uncertain", icon |-> "U+1F7E0"]
    ELSE [label |-> "Very High Risk / Unlikely", icon |-> "U+1F534"]

\* the sort key without abs
sort_key_signed(x) == -impact_of(x).num

\* key=lambda x: -abs(x.get("impact", 0))
sort_key(x) == -Abs(impact_of(x).num)

\* x put into the sorted list s behind every entry whose key is not greater
insert_stable(x, s) ==
    LET p == Cardinality({j \in DOMAIN s : sort_key(s[j]) <= sort_key(x)})
    IN  SubSeq(s, 1, p) \o <<x>> \o SubSeq(s, p + 1, Len(s))

RECURSIVE sorted(_)
\* sorted(xs, key=...): a new list, stable
sorted(xs) ==
    IF xs = <<>> THEN <<>>
    ELSE insert_stable(xs[Len(xs)], sorted(SubSeq(xs, 1, Len(xs) - 1)))

\* sorted(xs, key=...)[:3]
top3(xs) == SubSeq(sorted(xs), 1, Min(3, Len(xs)))

\* The call's outcome: the dict returned ("returns") or the exception raised
\* ("raises"), with the two argument lists as the call leaves them.
planning_balance_engine(harms, benefits, local_policy_priority) ==
    IF \E i \in DOMAIN harms : ~IsNumber(impact_of(harms[i]))
        THEN [raises |-> "TypeError", harms |-> harms, benefits |-> benefits]
    ELSE IF \E i \in DOMAIN benefits : ~IsNumber(impact_of(benefits[i]))
        THEN [raises |-> "TypeError", harms |-> harms, benefits |-> benefits]
    ELSE
    LET harm_score    == sum_impacts(harms)
        benefit_score == sum_impacts(benefits)
                         + (IF weights_given(local_policy_priority)
                               THEN weighted_bonus(benefits, local_policy_priority)
                               ELSE 0)
        raw           == raw_of(benefit_score, harm_score)
        score         == score_of(raw)
    IN  IF exp_overflows(raw)
            THEN [raises |-> "OverflowError", harms |-> harms, benefits |-> benefits]
        ELSE [returns  |-> [score     |-> score,
                            label     |-> risk_label(score).label,
                            icon      |-> risk_label(score).icon,
                            rationale |-> [harm_score    |-> harm_score,
                                           benefit_score |-> benefit_score,
                                           top_harms     |-> top3(harms),
                                           top_benefits  |-> top3(benefits)]],
              harms    |-> harms,
              benefits |-> benefits]

-----------------------------------------------------------------------------
(* The recommendations the script writes at the end of every rerun *)

\* the words the report's branches look for in a harm's lower-cased title
Keywords ==
    [flood         |-> <<"f","l","o","o","d">>,
     heritage      |-> <<"h","e","r","i","t","a","g","e">>,
     green_belt    |-> <<"g","r","e","e","n"," ","b","e","l","t">>,
     contamination |-> <<"c","o","n","t","a","m","i","n","a","t","i","o","n">>,
     access        |-> <<"a","c","c","e","s","s">>]

\* "<word>" in title.lower()
title_has(word, title) == Contains(Keywords[word], Lower(title))

\* key=lambda x: x.get("impact", 0) with reverse=True: the greater impact
\* first, equal impacts in the order they had
insert_by_impact(x, s) ==
    LET p == Cardinality({j \in DOMAIN s : impact_of(s[j]).num >= impact_of(x).num})
    IN  SubSeq(s, 1, p) \o <<x>> \o SubSeq(s, p + 1, Len(s))

RECURSIVE sorted_by_impact(_)
sorted_by_impact(xs) ==
    IF xs = <<>> THEN <<>>
    ELSE insert_by_impact(xs[Len(xs)], sorted_by_impact(SubSeq(xs, 1, Len(xs) - 1)))

\* sorted(harms, key=..., reverse=True)[:2]
top_harms_of(harms) == SubSeq(sorted_by_impact(harms), 1, Min(2, Len(harms)))

\* f"**{title}:** {desc}\n\n", kept as its two interpolated values
Heading(title, desc) == [title |-> title, desc |-> desc]

\* one sentence appended to the report, named by its opening words
Sentence(text) == [text |-> text]

\* site.get("five_year_supply") in [...]: the two decorated widget values
supply_shortfall(site) ==
    Get(site, "five_year_supply") \in {"U+274C No - Not demonstrated", "U+26A0 U+FE0F Marginal"}

\* what one pass of the loop appends to the report for the harm h
report_for(h, site, policy_weights_) ==
    LET title == GetOr(h, "title", <<"U","n","k","n","o","w","n"," ","R","i","s","k">>)
        desc  == GetOr(h, "desc", <<>>)
    IN  IF title_has("flood", title) THEN
            <<Heading(title, desc), Sentence("Given the flood risk")>>
            \o (IF supply_shortfall(site)
                   THEN <<Sentence("Since the area has a housing supply shortfall")>> ELSE <<>>)
            \o (IF Truthy(site, "brownfield")
                   THEN <<Sentence("The FRA should also highlight that brownfield redevelopment")>>
                   ELSE <<>>)
            \o <<Sentence("Mitigation measures may include raising finished floor levels")>>
        ELSE IF title_has("heritage", title) THEN
            <<Heading(title, desc), Sentence("A detailed Heritage Statement is required")>>
            \o (IF GetOr(policy_weights_, "heritage", 100) > 120
                   THEN <<Sentence("High heritage sensitivity in local policy")>> ELSE <<>>)
            \o <<Sentence("Include this in the planning/design and access statement")>>
        ELSE IF title_has("green_belt", title) THEN
            <<Heading(title, desc), Sentence("Development in the Green Belt requires")>>
            \o (IF supply_shortfall(site)
                   THEN <<Sentence("Highlighting local housing need")>> ELSE <<>>)
            \o (IF Truthy(site, "brownfield")
                   THEN <<Sentence("Emphasize that the scheme reuses previously developed land")>>
                   ELSE <<>>)
            \o <<Sentence("Include detailed design alternatives")>>
        ELSE IF title_has("contamination", title) THEN
            <<Heading(title, desc), Sentence("Mitigate contamination through site investigations")>>
            \o (IF Truthy(site, "brownfield")
                   THEN <<Sentence("Highlight that remediation enables brownfield regeneration")>>
                   ELSE <<>>)
            \o <<Sentence("Document all steps in the planning submission")>>
        ELSE IF title_has("access", title) THEN
            <<Heading(title, desc), Sentence("Prepare a robust Transport Assessment")>>
            \o (IF Get(site, "primary_use") = "Residential" /\ Truthy(site, "good_access")
                   THEN <<Sentence("Even with good access")>> ELSE <<>>)
            \o <<Sentence("Include technical evidence in the submission")>>
        ELSE
            <<Heading(title, desc),
              [mitigation |-> GetOr(h, "mitigation",
                  "Develop a clear mitigation plan and document it in the submission.")]>>

RECURSIVE report_of(_, _, _)
\* the for loop over top_harms
report_of(top_harms, site, policy_weights_) ==
    IF top_harms = <<>> THEN <<>>
    ELSE report_of(SubSeq(top_harms, 1, Len(top_harms) - 1), site, policy_weights_)
         \o report_for(top_harms[Len(top_harms)], site, policy_weights_)

\* the Recommendations block: st.info(...) or st.markdown(report), from the
\* session's site_meta, current_assessment and policy_weights
recommendations(site, current_assessment_, policy_weights_) ==
    IF current_assessment_ = None
        THEN [info |-> "Run an assessment first to generate recommendations."]
    ELSE LET harms == current_assessment_.balance.rationale.top_harms
         IN  IF harms = <<>>
                 THEN [info |-> "No significant harms identified for this site."]
             ELSE [markdown |-> report_of(top_harms_of(harms), site, policy_weights_)]

\* the Score Display of the assessment tab: the three figures and the verdict
score_display(current_assessment_) ==
    IF current_assessment_ # None
        THEN [score      |-> current_assessment_.balance.score,
              benefit    |-> current_assessment_.balance.rationale.benefit_score,
              risk       |-> current_assessment_.balance.rationale.harm_score,
              verdict    |-> <<current_assessment_.balance.icon, current_assessment_.balance.label>>]
    ELSE [info |-> "Click 'Run Assessment' to analyze your scenario"]


-----------------------------------------------------------------------------
(* The session of main(): st.session_state across the script's reruns *)

\* the values the sidebar widgets can hand to one rerun; the scoring reads the
\* ones varied here, and the others stay at the widgets' defaults
WidgetValues ==
    [site_choice        : {"Triton Square"},
     primary_use        : {"Residential"},
     dwellings          : {120},
     affordable_pct     : {25},
     total_floorspace   : {5000},
     brownfield         : BOOLEAN,
     contamination_risk : BOOLEAN,
     green_belt         : {FALSE},
     adjacent_heritage  : BOOLEAN,
     flood_zone         : {"None", "3"},
     good_access        : BOOLEAN,
     five_year_supply   : {FiveYearSupplyOptions[1], FiveYearSupplyOptions[3]},
     housing_delivery   : {HousingDeliveryOptions[1], HousingDeliveryOptions[3]},
     local_plan_status  : {LocalPlanStatusOptions[1]},
     brownfield_policy  : {BrownfieldPolicyOptions[1]},
     heritage_context   : {HeritageContextOptions[1]}]

\* every widget at its default: the first option of a selectbox or radio, the
\* value= of a checkbox, slider or number input
WidgetDefaults ==
    [site_choice        |-> "Triton Square",
     primary_use        |-> "Residential",
     dwellings          |-> 120,
     affordable_pct     |-> 25,
     total_floorspace   |-> 5000,
     brownfield         |-> TRUE,
     contamination_risk |-> FALSE,
     green_belt         |-> FALSE,
     adjacent_heritage  |-> TRUE,
     flood_zone         |-> "None",
     good_access        |-> TRUE,
     five_year_supply   |-> FiveYearSupplyOptions[1],
     housing_delivery   |-> HousingDeliveryOptions[1],
     local_plan_status  |-> LocalPlanStatusOptions[1],
     brownfield_policy  |-> BrownfieldPolicyOptions[1],
     heritage_context   |-> HeritageContextOptions[1]]

\* the dict both branches build for st.session_state.site_meta
site_meta_of(w, five_year_supply, housing_delivery, local_plan_status) ==
    [site_choice        |-> w.site_choice,
     primary_use        |-> w.primary_use,
     dwellings          |-> w.dwellings,
     affordable_pct     |-> w.affordable_pct,
     total_floorspace   |-> w.total_floorspace,
     brownfield         |-> w.brownfield,
     contamination_risk |-> w.contamination_risk,
     green_belt         |-> w.green_belt,
     adjacent_heritage  |-> w.adjacent_heritage,
     flood_zone         |-> IF w.flood_zone # "None" THEN w.flood_zone ELSE NoneStr,
     good_access        |-> w.good_access,
     five_year_supply   |-> five_year_supply,
     housing_delivery   |-> housing_delivery,
     local_plan_status  |-> local_plan_status]

\* the planning_context of the first run: literals, not the widgets' values
initial_planning_context ==
    [five_year_supply  |-> "U+2705 Yes - Demonstrated",
     housing_delivery  |-> ">95%",
     local_plan_status |-> "U+1F4C5 Adopted (<5 years)",
     brownfield_policy |-> "U+1F3AF Strong preference",
     heritage_context  |-> "U+1F3DB U+FE0F High sensitivity"]

\* no direct call is in progress
NoCall == [fn |-> "none"]

\* The state after the session's first run of the script: current_assessment is
\* set to None, no button can have been pressed, and 'site_meta' is not in the
\* session state yet.
Init ==
    /\ current_assessment = None
    /\ site_meta = site_meta_of(WidgetDefaults, "U+2705 Yes - Demonstrated", ">95%",
                                "U+1F4C5 Adopted (<5 years)")
    /\ policy_weights = calculate_policy_weights(initial_planning_context)
    /\ planning_context = initial_planning_context
    /\ call = NoCall
    /\ pc = "idle"
    /\ ret = None

\* the save without the line that stores the recalculated weights
SaveWithoutWeights ==
    \E w \in WidgetValues :
        LET planning_context_ == [five_year_supply  |-> w.five_year_supply,
                                  housing_delivery  |-> w.housing_delivery,
                                  local_plan_status |-> w.local_plan_status,
                                  brownfield_policy |-> w.brownfield_policy,
                                  heritage_context  |-> w.heritage_context]
        IN  /\ site_meta' = site_meta_of(w, w.five_year_supply, w.housing_delivery,
                                         w.local_plan_status)
            /\ planning_context' = planning_context_
            /\ UNCHANGED <<policy_weights, current_assessment, call_vars>>

\* the save that also drops the assessment of the configuration it replaces
SaveAndClearAssessment ==
    \E w \in WidgetValues :
        LET planning_context_ == [five_year_supply  |-> w.five_year_supply,
                                  housing_delivery  |-> w.housing_delivery,
                                  local_plan_status |-> w.local_plan_status,
                                  brownfield_policy |-> w.brownfield_policy,
                                  heritage_context  |-> w.heritage_context]
        IN  /\ site_meta' = site_meta_of(w, w.five_year_supply, w.housing_delivery,
                                         w.local_plan_status)
            /\ policy_weights' = calculate_policy_weights(planning_context_)
            /\ planning_context' = planning_context_
            /\ current_assessment' = None
            /\ UNCHANGED call_vars

\* a rerun with the Save Current Configuration button pressed
SaveCurrentConfiguration ==
    \E w \in WidgetValues :
        LET planning_context_ == [five_year_supply  |-> w.five_year_supply,
                                  housing_delivery  |-> w.housing_delivery,
                                  local_plan_status |-> w.local_plan_status,
                                  brownfield_policy |-> w.brownfield_policy,
                                  heritage_context  |-> w.heritage_context]
        IN  /\ site_meta' = site_meta_of(w, w.five_year_supply, w.housing_delivery,
                                         w.local_plan_status)
            /\ policy_weights' = calculate_policy_weights(planning_context_)
            /\ planning_context' = planning_context_
            /\ UNCHANGED <<current_assessment, call_vars>>

\* the run that, once an assessment exists, overwrites its balance in place and
\* keeps the harms and benefits it already holds
RunUpdatingBalanceOnly ==
    LET assessed == auto_assess_site(site_meta)
        engine   == planning_balance_engine(assessed.harms, assessed.benefits, policy_weights)
    IN  /\ current_assessment' =
               IF "returns" \notin DOMAIN engine THEN current_assessment
               ELSE IF current_assessment = None
                   THEN [harms    |-> engine.harms,
                         benefits |-> engine.benefits,
                         balance  |-> engine.returns]
               ELSE [current_assessment EXCEPT !.balance = engine.returns]
        /\ UNCHANGED <<site_meta, policy_weights, planning_context, call_vars>>

\* a rerun with the Run Assessment button pressed; an exception in the engine
\* would end the rerun before the assignment
RunAssessment ==
    LET assessed == auto_assess_site(site_meta)
        engine   == planning_balance_engine(assessed.harms, assessed.benefits, policy_weights)
    IN  /\ current_assessment' =
               IF "returns" \in DOMAIN engine
                   THEN [harms    |-> engine.harms,
                         benefits |-> engine.benefits,
                         balance  |-> engine.returns]
                   ELSE current_assessment
        /\ UNCHANGED <<site_meta, policy_weights, planning_context, call_vars>>

Next == SaveCurrentConfiguration \/ RunAssessment

Spec == Init /\ [][Next]_vars

-----------------------------------------------------------------------------
(* Direct calls of the three scoring functions, over bounded sets of arguments *)

\* the longest harms and benefits lists, together, of a scoring call
MaxItems == 3

\* the longest list of a ranking call
MaxRanked == 4

\* the plain values of the enumerations: the ones the rule tables name, and the
\* plain names of the options they do not name
PlainFiveYearSupply == <<"Yes", "Marginal", "No">>

PlainLocalPlanStatus == <<"Adopted", "Emerging", "Out-of-date">>

PlainBrownfieldPolicy == <<"Strong preference", "Moderate preference", "No specific policy">>

PlainHeritageContext == <<"High sensitivity", "Moderate sensitivity", "Low sensitivity">>

\* marks a key to leave out of a dict
Missing == "<missing>"

\* a value no rule table and no widget knows
Unrecognised == "Unknown"

\* every PolicyContext: each field plain, decorated, unrecognised or missing
ContextInputs ==
    {DropKeys(c, Missing) :
        c \in [five_year_supply  : Range(FiveYearSupplyOptions) \cup Range(PlainFiveYearSupply)
                                   \cup {Unrecognised, Missing},
               housing_delivery  : Range(HousingDeliveryOptions) \cup {Unrecognised, Missing},
               local_plan_status : Range(LocalPlanStatusOptions) \cup Range(PlainLocalPlanStatus)
                                   \cup {Missing},
               brownfield_policy : Range(BrownfieldPolicyOptions) \cup Range(PlainBrownfieldPolicy)
                                   \cup {Missing},
               heritage_context  : Range(HeritageContextOptions) \cup Range(PlainHeritageContext)
                                   \cup {Missing}]}

\* the site_meta fields auto_assess_site reads, every combination
FullSiteInputs ==
    [flood_zone         : {NoneStr, "1", "2", "3"},
     adjacent_heritage  : BOOLEAN,
     green_belt         : BOOLEAN,
     brownfield         : BOOLEAN,
     contamination_risk : BOOLEAN,
     good_access        : BOOLEAN,
     five_year_supply   : Range(FiveYearSupplyOptions) \cup Range(PlainFiveYearSupply),
     affordable_pct     : {0, 24, 25, 100}]

\* site_meta dicts with keys missing: two sites cut down to every subset of their keys
PartialSiteInputs ==
    LET bases == {[flood_zone |-> "3", adjacent_heritage |-> TRUE, green_belt |-> TRUE,
                   brownfield |-> TRUE, contamination_risk |-> TRUE, good_access |-> TRUE,
                   five_year_supply |-> "No", affordable_pct |-> 25],
                  [flood_zone |-> NoneStr, adjacent_heritage |-> FALSE, green_belt |-> FALSE,
                   brownfield |-> FALSE, contamination_risk |-> FALSE, good_access |-> TRUE,
                   five_year_supply |-> "U+2705 Yes - Demonstrated", affordable_pct |-> 0]}
    IN  {[k \in keys |-> s[k]] : s \in bases, keys \in SUBSET {"flood_zone", "adjacent_heritage",
            "green_belt", "brownfield", "contamination_risk", "good_access",
            "five_year_supply", "affordable_pct"}}

SiteInputs == FullSiteInputs \cup PartialSiteInputs

\* harms for the scoring calls: a default, a bare impact, an impact missing, an
\* impact that is no number, and one large enough to push raw below the exponent's range
HarmPool ==
    {low_obvious_policy_conflict,
     [impact |-> Num(10)],
     [title |-> <<"F","l","o","o","d"," ","r","i","s","k">>],
     [title |-> <<"G","r","e","e","n"," ","B","e","l","t">>, impact |-> [str |-> "high"]],
     [title |-> <<"G","r","e","e","n"," ","B","e","l","t">>, impact |-> Num(11000)]}

\* benefits for the scoring calls: two of the rules' benefits and the default, a
\* bare zero impact, a benefit that names a topic in its description only, and
\* one whose title names two topics
BenefitPool ==
    {housing_delivery_benefit,
     brownfield_regeneration,
     development_potential,
     [impact |-> Num(0)],
     [title  |-> <<"N","e","w"," ","h","o","m","e","s">>,
      desc   |-> <<"M","e","e","t","s"," ","l","o","c","a","l"," ","h","o","u","s","i","n","g"," ","n","e","e","d",".">>,
      impact |-> Num(4)],
     [title  |-> <<"H","e","r","i","t","a","g","e","-","l","e","d"," ","h","o","u","s","i","n","g">>,
      desc   |-> <<"H","o","m","e","s"," ","i","n"," ","a"," ","r","e","s","t","o","r","e","d"," ","m","i","l","l",".">>,
      impact |-> Num(5)]}

\* the local_policy_priority arguments: none, one topic, and two results of
\* calculate_policy_weights
PriorityInputs ==
    {None,
     [housing |-> 140],
     calculate_policy_weights(initial_planning_context),
     calculate_policy_weights([five_year_supply |-> "No", housing_delivery |-> "<75%",
                               local_plan_status |-> "Emerging",
                               brownfield_policy |-> "Strong preference",
                               heritage_context |-> "High sensitivity"])}

\* entries for the ranking calls: two of equal impact, a negative impact of the
\* greatest magnitude, a small one, and one with no impact
RankPool ==
    {heritage_asset_adjacency,
     [title |-> <<"N","o","i","s","e">>, impact |-> Num(7)],
     [title |-> <<"L","o","s","s"," ","o","f"," ","t","r","e","e","s">>, impact |-> Num(-9)],
     good_access_benefit,
     [title |-> <<"D","e","s","i","g","n"," ","q","u","a","l","i","t","y">>]}

\* the scoring calls: MaxItems bounds the two lists' lengths together
ScoringCalls ==
    UNION {{[fn |-> "planning_balance_engine", harms |-> h, benefits |-> b,
             local_policy_priority |-> p] :
               b \in SeqsUpTo(BenefitPool, MaxItems - Len(h)), p \in PriorityInputs} :
           h \in SeqsUpTo(HarmPool, MaxItems)}

RankingCalls ==
    {[fn |-> "planning_balance_engine", harms |-> h, benefits |-> <<development_potential>>,
      local_policy_priority |-> None] : h \in SeqsUpTo(RankPool, MaxRanked)}
    \cup
    {[fn |-> "planning_balance_engine", harms |-> <<low_obvious_policy_conflict>>, benefits |-> b,
      local_policy_priority |-> None] : b \in SeqsUpTo(RankPool, MaxRanked)}

EngineCalls == ScoringCalls \cup RankingCalls

Calls ==
    {[fn |-> "calculate_policy_weights", planning_context |-> c] : c \in ContextInputs}
    \cup {[fn |-> "auto_assess_site", site_meta |-> s] : s \in SiteInputs}
    \cup EngineCalls

\* a call is about to be made; the session is the one of Init and is not touched
CallInit ==
    /\ current_assessment = None
    /\ site_meta = site_meta_of(WidgetDefaults, "U+2705 Yes - Demonstrated", ">95%",
                                "U+1F4C5 Adopted (<5 years)")
    /\ policy_weights = calculate_policy_weights(initial_planning_context)
    /\ planning_context = initial_planning_context
    /\ call \in Calls
    /\ pc = "called"
    /\ ret = None

Call_calculate_policy_weights ==
    /\ pc = "called"
    /\ call.fn = "calculate_policy_weights"
    /\ ret' = calculate_policy_weights(call.planning_context)
    /\ pc' = "returned"
    /\ UNCHANGED <<call, session_vars>>

Call_auto_assess_site ==
    /\ pc = "called"
    /\ call.fn = "auto_assess_site"
    /\ ret' = auto_assess_site(call.site_meta)
    /\ pc' = "returned"
    /\ UNCHANGED <<call, session_vars>>

Call_planning_balance_engine ==
    /\ pc = "called"
    /\ call.fn = "planning_balance_engine"
    /\ ret' = planning_balance_engine(call.harms, call.benefits, call.local_policy_priority)
    /\ pc' = "returned"
    /\ UNCHANGED <<call, session_vars>>

CallNext ==
    \/ Call_calculate_policy_weights
    \/ Call_auto_assess_site
    \/ Call_planning_balance_engine

CallSpec == CallInit /\ [][CallNext]_vars

-----------------------------------------------------------------------------
(* Properties of calculate_policy_weights *)

Returned(fn) == pc = "returned" /\ call.fn = fn

\* C1: for every PolicyContext, recognised values or not and fields missing or
\* not, calculate_policy_weights returns exactly the topics housing, brownfield
\* and heritage, each weight in [0.5, 2.0].
C1_WeightsInRange ==
    Returned("calculate_policy_weights") =>
        /\ DOMAIN ret = {"housing", "brownfield", "heritage"}
        /\ \A key \in DOMAIN ret : ret[key] \in 50..200

\* a context with a field missing and an unrecognised value, and every housing bump applied
C1_Witness ==
    /\ Returned("calculate_policy_weights")
    /\ "heritage_context" \notin DOMAIN call.planning_context
    /\ Get(call.planning_context, "brownfield_policy") = NoneStr
    /\ Get(call.planning_context, "five_year_supply") = "No"
    /\ Get(call.planning_context, "housing_delivery") = "<75%"
    /\ Get(call.planning_context, "local_plan_status") = "Out-of-date"
    /\ ret.housing = 190

\* the plain value of a decorated option; any other value is its own plain form
PlainOf(value) ==
    CASE value = "U+2705 Yes - Demonstrated" -> "Yes"
      [] value = "U+26A0 U+FE0F Marginal" -> "Marginal"
      [] value = "U+274C No - Not demonstrated" -> "No"
      [] value = "U+1F4C5 Adopted (<5 years)" -> "Adopted"
      [] value = "U+1F4CB Emerging" -> "Emerging"
      [] value = "U+1F4DC Out-of-date" -> "Out-of-date"
      [] value = "U+1F3AF Strong preference" -> "Strong preference"
      [] value = "U+2696 U+FE0F Moderate preference" -> "Moderate preference"
      [] value = "U+1F4C8 No specific policy" -> "No specific policy"
      [] value = "U+1F3DB U+FE0F High sensitivity" -> "High sensitivity"
      [] value = "U+2696 U+FE0F Moderate sensitivity" -> "Moderate sensitivity"
      [] value = "U+1F4CA Low sensitivity" -> "Low sensitivity"
      [] OTHER -> value

\* the context with every field in its plain form
PlainContext(planning_context_) ==
    [key \in DOMAIN planning_context_ |-> PlainOf(planning_context_[key])]

\* a context as the sidebar builds it: every field one of its widget's options
FromWidgets(planning_context_) ==
    /\ DOMAIN planning_context_ = {"five_year_supply", "housing_delivery", "local_plan_status",
                                   "brownfield_policy", "heritage_context"}
    /\ planning_context_.five_year_supply \in Range(FiveYearSupplyOptions)
    /\ planning_context_.housing_delivery \in Range(HousingDeliveryOptions)
    /\ planning_context_.local_plan_status \in Range(LocalPlanStatusOptions)
    /\ planning_context_.brownfield_policy \in Range(BrownfieldPolicyOptions)
    /\ planning_context_.heritage_context \in Range(HeritageContextOptions)

\* C4: the rules treat the decorated form of an option as its plain form: a
\* context of decorated widget options gets the weights of the plain context,
\* and a site whose five_year_supply is the decorated Marginal or Not
\* demonstrated option gets the "Housing delivery" benefit as the plain one does.
C4_DecoratedAsPlain ==
    /\ (Returned("calculate_policy_weights") /\ FromWidgets(call.planning_context)) =>
           ret = calculate_policy_weights(PlainContext(call.planning_context))
    /\ (Returned("auto_assess_site")
           /\ Get(call.site_meta, "five_year_supply") \in
                  {"U+26A0 U+FE0F Marginal", "U+274C No - Not demonstrated"}) =>
           \E i \in DOMAIN ret.benefits : ret.benefits[i] = housing_delivery_benefit

\* the baseline: supply demonstrated, delivery above 95%, plan adopted, strong
\* brownfield preference, each plain or as the widget gives it
IsBaseline(planning_context_) ==
    /\ Get(planning_context_, "five_year_supply") \in {"Yes", "U+2705 Yes - Demonstrated"}
    /\ Get(planning_context_, "housing_delivery") = ">95%"
    /\ Get(planning_context_, "local_plan_status") \in {"Adopted", "U+1F4C5 Adopted (<5 years)"}
    /\ Get(planning_context_, "brownfield_policy") \in
           {"Strong preference", "U+1F3AF Strong preference"}

-----------------------------------------------------------------------------
(* Properties of auto_assess_site *)

\* C3: auto_assess_site returns a non-empty harms list and a non-empty benefits
\* list for every site_meta; when no harm rule applies the harms are exactly
\* one default harm of impact 1, and when no benefit rule applies the benefits
\* are exactly one default benefit of impact 2.
C3_DefaultsPopulate ==
    Returned("auto_assess_site") =>
        /\ ret.harms # <<>>
        /\ ret.benefits # <<>>
        /\ rule_harms(call.site_meta) = <<>> =>
               /\ Len(ret.harms) = 1
               /\ ret.harms[1].title = low_obvious_policy_conflict.title
               /\ ret.harms[1].impact = Num(1)
        /\ rule_benefits(call.site_meta) = <<>> =>
               /\ Len(ret.benefits) = 1
               /\ ret.benefits[1].title = development_potential.title
               /\ ret.benefits[1].impact = Num(2)

\* a site no harm rule applies to, which gets the default harm
C3_Witness ==
    /\ Returned("auto_assess_site")
    /\ rule_harms(call.site_meta) = <<>>
    /\ ret.harms = <<low_obvious_policy_conflict>>
    /\ Len(ret.benefits) >= 1

-----------------------------------------------------------------------------
(* Properties of planning_balance_engine *)

EngineReturned == Returned("planning_balance_engine") /\ "returns" \in DOMAIN ret

\* benefit_score - harm_score of a result, in hundredths
NetOf(result) == result.rationale.benefit_score - result.rationale.harm_score

\* the weights, net value and score of every engine call that returns
NetScores ==
    {[local_policy_priority |-> c.local_policy_priority,
      net   |-> NetOf(planning_balance_engine(c.harms, c.benefits,
                                              c.local_policy_priority).returns),
      score |-> planning_balance_engine(c.harms, c.benefits,
                                        c.local_policy_priority).returns.score] :
        c \in {x \in EngineCalls :
                 "returns" \in DOMAIN planning_balance_engine(x.harms, x.benefits,
                                                              x.local_policy_priority)}}

\* C2: the score the engine returns is an integer in [0, 100], and among calls
\* with the same weights a call whose benefit_score - harm_score is greater than
\* or equal to another's has a score greater than or equal to it.
C2_ScoreMonotone ==
    EngineReturned =>
        /\ ret.returns.score \in 0..100
        /\ \A other \in NetScores :
               other.local_policy_priority = call.local_policy_priority =>
                   /\ other.net >= NetOf(ret.returns) => other.score >= ret.returns.score
                   /\ other.net <= NetOf(ret.returns) => other.score <= ret.returns.score

\* a weighted call with a score inside the range, and another of greater net and score
C2_Witness ==
    /\ EngineReturned
    /\ weights_given(call.local_policy_priority)
    /\ ret.returns.score \in 1..99
    /\ \E other \in NetScores :
           /\ other.local_policy_priority = call.local_policy_priority
           /\ other.net > NetOf(ret.returns)
           /\ other.score > ret.returns.score

\* sum of a function's values over its finite domain
RECURSIVE SumFn(_)
SumFn(f) ==
    IF DOMAIN f = {} THEN 0
    ELSE LET x == CHOOSE y \in DOMAIN f : TRUE
         IN  f[x] + SumFn([y \in DOMAIN f \ {x} |-> f[y]])

\* the impact of an entry as a number of units, 0 when it has none
ImpactNum(x) == IF "impact" \in DOMAIN x THEN x.impact.num ELSE 0

\* the topic occurs, whatever its case, in the text
Names(key, text) == Contains(Chars[key], Lower(text))

\* the sum of the impacts plus impact * (weight - 1.0) for every (benefit, topic)
\* pair that InText(key, benefit) relates, in hundredths
WeightedTotal(benefits, local_policy_priority, InText(_, _)) ==
    SumFn([i \in DOMAIN benefits |-> 100 * ImpactNum(benefits[i])])
    + SumFn([p \in {q \in (DOMAIN benefits) \X (DOMAIN local_policy_priority) :
                      InText(q[2], benefits[q[1]])} |->
               ImpactNum(benefits[p[1]]) * (local_policy_priority[p[2]] - 100)])

InTitleOrDescription(key, benefit) ==
    \/ Names(key, GetOr(benefit, "title", <<>>))
    \/ Names(key, GetOr(benefit, "desc", <<>>))

InTitle(key, benefit) == Names(key, GetOr(benefit, "title", <<>>))

\* the call of the example: "Housing delivery", impact 8, under housing = 1.4
IsHousingExample ==
    /\ call.harms = <<>>
    /\ call.benefits = <<housing_delivery_benefit>>
    /\ call.local_policy_priority = [housing |-> 140]

\* C5 as stated: with weights given, benefit_score is the sum of the benefit
\* impacts plus impact * (weight - 1.0) for every (benefit, topic) pair whose
\* topic occurs, case-insensitively, in the benefit's title or its description;
\* harm_score is the plain sum; the example adds 3.2.
C5_TitleOrDescription ==
    (EngineReturned /\ weights_given(call.local_policy_priority)) =>
        /\ ret.returns.rationale.benefit_score =
               WeightedTotal(call.benefits, call.local_policy_priority, InTitleOrDescription)
        /\ ret.returns.rationale.harm_score =
               SumFn([i \in DOMAIN call.harms |-> 100 * ImpactNum(call.harms[i])])
        /\ IsHousingExample => ret.returns.rationale.benefit_score = 800 + 320

\* C5 amended: the topic is looked for in the benefit's title only; a topic that
\* occurs only in the description adds nothing.
C5_TitleOnly ==
    (EngineReturned /\ weights_given(call.local_policy_priority)) =>
        /\ ret.returns.rationale.benefit_score =
               WeightedTotal(call.benefits, call.local_policy_priority, InTitle)
        /\ ret.returns.rationale.harm_score =
               SumFn([i \in DOMAIN call.harms |-> 100 * ImpactNum(call.harms[i])])
        /\ IsHousingExample => ret.returns.rationale.benefit_score = 800 + 320

\* weights applied to a benefit whose title names two topics, next to one that
\* names a topic in its description only, with a harm beside them
C5_Witness ==
    /\ EngineReturned
    /\ call.local_policy_priority = [housing |-> 190, brownfield |-> 130, heritage |-> 140]
    /\ Len(call.harms) = 1
    /\ Len(call.benefits) = 2
    /\ GetOr(call.benefits[1], "title", <<>>) = <<"H","e","r","i","t","a","g","e","-","l","e","d"," ","h","o","u","s","i","n","g">>
    /\ GetOr(call.benefits[2], "title", <<>>) = <<"N","e","w"," ","h","o","m","e","s">>
    /\ ret.returns.rationale.benefit_score = 900 + 5 * 90 + 5 * 40

Labels ==
    {"Low Risk / Likely to Succeed", "Medium Risk / Reasonable Chance",
     "High Risk / Uncertain", "Very High Risk / Unlikely"}

\* the tier a score belongs to by the thresholds 80, 60 and 40
TierOf(score) ==
    CASE score >= 80 -> "Low Risk / Likely to Succeed"
      [] score >= 60 /\ score < 80 -> "Medium Risk / Reasonable Chance"
      [] score >= 40 /\ score < 60 -> "High Risk / Uncertain"
      [] score < 40 -> "Very High Risk / Unlikely"

IconOf(label) ==
    CASE label = "Low Risk / Likely to Succeed" -> "U+1F7E2"
      [] label = "Medium Risk / Reasonable Chance" -> "U+1F7E1"
      [] label = "High Risk / Uncertain" -> "U+1F7E0"
      [] label = "Very High Risk / Unlikely" -> "U+1F534"

\* C6: the label of a result is the tier of its score (>= 80 Low, 60..79 Medium,
\* 40..59 High, < 40 Very High), its icon is the one of that label, and every
\* score in 0..100 gets exactly one of the four labels.
C6_LabelByThreshold ==
    /\ EngineReturned =>
           /\ ret.returns.label = TierOf(ret.returns.score)
           /\ ret.returns.icon = IconOf(ret.returns.label)
    /\ \A score \in 0..100 :
           /\ Cardinality({l \in Labels : risk_label(score).label = l}) = 1
           /\ risk_label(score).label = TierOf(score)
           /\ risk_label(score).icon = IconOf(risk_label(score).label)

\* a result on the first threshold
C6_Witness ==
    /\ EngineReturned
    /\ ret.returns.score = 80
    /\ ret.returns.label = "Low Risk / Likely to Succeed"

\* |impact| of an entry
AbsImpact(x) == Abs(ImpactNum(x))

\* top is the first min(3, len) of xs in descending |impact|, equal impacts in
\* their order in xs: some choice of positions of xs yields top, runs through
\* them in that order, and leaves out only entries that come behind all of them
IsTopThree(top, xs) ==
    /\ Len(top) = Min(3, Len(xs))
    /\ \E at \in [DOMAIN top -> DOMAIN xs] :
           /\ \A i \in DOMAIN top : top[i] = xs[at[i]]
           /\ \A i, j \in DOMAIN top :
                  i < j => \/ AbsImpact(xs[at[i]]) > AbsImpact(xs[at[j]])
                           \/ /\ AbsImpact(xs[at[i]]) = AbsImpact(xs[at[j]])
                              /\ at[i] < at[j]
           /\ \A k \in DOMAIN xs \ {at[i] : i \in DOMAIN top} :
                  \A i \in DOMAIN top :
                      \/ AbsImpact(xs[k]) < AbsImpact(xs[at[i]])
                      \/ /\ AbsImpact(xs[k]) = AbsImpact(xs[at[i]])
                         /\ k > at[i]

\* C7: top_harms and top_benefits have length min(3, length of the list), hold
\* only entries of it, in descending absolute impact with equal impacts in
\* insertion order, leave out no entry of greater absolute impact than one they
\* hold, and the lists passed in are not reordered.
C7_TopThree ==
    EngineReturned =>
        /\ IsTopThree(ret.returns.rationale.top_harms, call.harms)
        /\ IsTopThree(ret.returns.rationale.top_benefits, call.benefits)
        /\ ret.harms = call.harms
        /\ ret.benefits = call.benefits

\* four harms, the negative one of the greatest magnitude last and two of equal
\* impact before it: the small one is left out and the equal ones keep their order
C7_Witness ==
    /\ EngineReturned
    /\ call.harms = <<good_access_benefit, heritage_asset_adjacency,
                      [title |-> <<"N","o","i","s","e">>, impact |-> Num(7)],
                      [title |-> <<"L","o","s","s"," ","o","f"," ","t","r","e","e","s">>, impact |-> Num(-9)]>>
    /\ ret.returns.rationale.top_harms =
           <<[title |-> <<"L","o","s","s"," ","o","f"," ","t","r","e","e","s">>, impact |-> Num(-9)],
             heritage_asset_adjacency,
             [title |-> <<"N","o","i","s","e">>, impact |-> Num(7)]>>

\* the call of the example: one harm of impact 10, one benefit of impact 0, no weights
IsNeutralExample ==
    /\ call.harms = <<[impact |-> Num(10)]>>
    /\ call.benefits = <<[impact |-> Num(0)]>>
    /\ call.local_policy_priority = None

\* C9 as stated: the example returns harm_score 10, benefit_score 0, score 62
\* and the label Medium Risk / Reasonable Chance.
C9_Score62 ==
    (Returned("planning_balance_engine") /\ IsNeutralExample) =>
        /\ "returns" \in DOMAIN ret
        /\ ret.returns.rationale.harm_score = 1000
        /\ ret.returns.rationale.benefit_score = 0
        /\ ret.returns.score = 62
        /\ ret.returns.label = "Medium Risk / Reasonable Chance"

\* C9 amended: raw is 10 and the score is 66, round(100 / (1 + e^(-10/15)));
\* the scores and the label are as stated.
C9_Score66 ==
    (Returned("planning_balance_engine") /\ IsNeutralExample) =>
        /\ "returns" \in DOMAIN ret
        /\ ret.returns.rationale.harm_score = 1000
        /\ ret.returns.rationale.benefit_score = 0
        /\ raw_of(ret.returns.rationale.benefit_score, ret.returns.rationale.harm_score) = 1000
        /\ ret.returns.score = 66
        /\ ret.returns.label = "Medium Risk / Reasonable Chance"

C9_Witness ==
    /\ Returned("planning_balance_engine")
    /\ IsNeutralExample
    /\ "returns" \in DOMAIN ret
    /\ ret.returns.score = 66

\* the impacts of a list with every missing or non-numeric impact read as 0
LenientSum(xs) ==
    SumFn([i \in DOMAIN xs |->
             IF "impact" \in DOMAIN xs[i] /\ IsNumber(xs[i].impact)
                 THEN 100 * xs[i].impact.num ELSE 0])

\* C10: the engine has no error outcome: for every harms and benefits list,
\* impacts missing or non-numeric and net values of any size included, it
\* returns a result with a score, each missing or malformed impact counting 0.
C10_NeverFails ==
    Returned("planning_balance_engine") =>
        /\ "returns" \in DOMAIN ret
        /\ ret.returns.score \in 0..100
        /\ ret.returns.rationale.harm_score = LenientSum(call.harms)

-----------------------------------------------------------------------------
(* Further properties of auto_assess_site *)

\* how many entries of the list carry the title
CountTitled(xs, title) == Cardinality({i \in DOMAIN xs : xs[i].title = title})

\* C14: the result of auto_assess_site holds exactly one of the "Poor access /
\* highways impact" harm and the "Good access to public transport" benefit; so
\* the default harm and the default benefit never both appear; and the
\* contamination harm appears only for a brownfield site, and then beside the
\* brownfield benefit.
C14_AccessEitherWay ==
    Returned("auto_assess_site") =>
        /\ CountTitled(ret.harms, poor_access.title)
               + CountTitled(ret.benefits, good_access_benefit.title) = 1
        /\ ~(/\ CountTitled(ret.harms, low_obvious_policy_conflict.title) > 0
             /\ CountTitled(ret.benefits, development_potential.title) > 0)
        /\ CountTitled(ret.harms, contamination_risk_harm.title) > 0 =>
               /\ Truthy(call.site_meta, "brownfield")
               /\ CountTitled(ret.benefits, brownfield_regeneration.title) = 1

\* a contaminated brownfield site with poor access: the contamination harm beside
\* the brownfield benefit, the access harm and no access benefit
C14_Witness ==
    /\ Returned("auto_assess_site")
    /\ Truthy(call.site_meta, "brownfield")
    /\ Truthy(call.site_meta, "contamination_risk")
    /\ ~Truthy(call.site_meta, "good_access")
    /\ CountTitled(ret.harms, contamination_risk_harm.title) = 1
    /\ CountTitled(ret.benefits, brownfield_regeneration.title) = 1
    /\ CountTitled(ret.harms, poor_access.title) = 1
    /\ CountTitled(ret.benefits, good_access_benefit.title) = 0

-----------------------------------------------------------------------------
(* Properties of the session *)

\* C13: after the first run and after any saves and runs, policy_weights is
\* calculate_policy_weights of the session's planning_context, and site_meta's
\* five_year_supply, housing_delivery and local_plan_status are those of
\* planning_context.
C13_WeightsFollowContext ==
    /\ policy_weights = calculate_policy_weights(planning_context)
    /\ site_meta.five_year_supply = planning_context.five_year_supply
    /\ site_meta.housing_delivery = planning_context.housing_delivery
    /\ site_meta.local_plan_status = planning_context.local_plan_status

\* a saved context that raises the housing weight, with an assessment made
C13_Witness ==
    /\ planning_context.housing_delivery = "<75%"
    /\ planning_context.five_year_supply = "U+274C No - Not demonstrated"
    /\ policy_weights.housing = 130
    /\ current_assessment # None

\* the planning_context a save builds from the widgets' values
ContextOf(w) ==
    [five_year_supply  |-> w.five_year_supply,
     housing_delivery  |-> w.housing_delivery,
     local_plan_status |-> w.local_plan_status,
     brownfield_policy |-> w.brownfield_policy,
     heritage_context  |-> w.heritage_context]

\* the weights a session can hold
SessionWeights ==
    {calculate_policy_weights(ContextOf(w)) : w \in WidgetValues}
    \cup {calculate_policy_weights(initial_planning_context)}

\* the record that belongs to a site_meta and weights: the harms and benefits
\* of the site and the engine's result for exactly those
AssessmentOf(site_meta_, policy_weights_) ==
    LET assessed == auto_assess_site(site_meta_)
    IN  [harms    |-> assessed.harms,
         benefits |-> assessed.benefits,
         balance  |-> planning_balance_engine(assessed.harms, assessed.benefits,
                                              policy_weights_).returns]

\* an assessment's balance is the engine's result for its own harms and benefits
InternallyConsistent ==
    current_assessment # None =>
        /\ DOMAIN current_assessment = {"harms", "benefits", "balance"}
        /\ \E policy_weights_ \in SessionWeights :
               current_assessment.balance =
                   planning_balance_engine(current_assessment.harms, current_assessment.benefits,
                                           policy_weights_).returns

\* C11: current_assessment is None when the session starts; a step that changes
\* it replaces it whole by the assessment of the site_meta and policy_weights
\* held at that moment; and after every step a current_assessment that is not
\* None is internally consistent.
C11_AssessmentReplacedWhole ==
    /\ current_assessment = None
    /\ [][current_assessment' # current_assessment =>
              current_assessment' = AssessmentOf(site_meta, policy_weights)]_vars
    /\ []InternallyConsistent

\* an assessment made under raised housing weight and kept while the
\* configuration moved on: still consistent, no longer the current site's
C11_Witness ==
    /\ current_assessment # None
    /\ current_assessment.balance.rationale.benefit_score
           > SumFn([i \in DOMAIN current_assessment.benefits |->
                      100 * ImpactNum(current_assessment.benefits[i])])
    /\ current_assessment # AssessmentOf(site_meta, policy_weights)

-----------------------------------------------------------------------------
(* C12 *)

\* what the rerun that ends in the current state writes under Recommendations
Report == recommendations(site_meta, current_assessment, policy_weights)

\* the opening words of the sentences in what the Recommendations block wrote
Sentences(written) ==
    IF "markdown" \notin DOMAIN written THEN {}
    ELSE {written.markdown[i].text :
              i \in {j \in DOMAIN written.markdown : DOMAIN written.markdown[j] = {"text"}}}

\* the report holds the sentence that opens with these words
Says(text) == text \in Sentences(Report)

\* the stored assessment found a harm with this title, and fewer than two of
\* its harms have a greater impact
Leading(title) ==
    LET harms == current_assessment.harms
    IN  \E i \in DOMAIN harms :
            /\ harms[i].title = title
            /\ Cardinality({j \in DOMAIN harms : ImpactNum(harms[j]) > ImpactNum(harms[i])}) < 2

\* the step wrote a new configuration
ConfigurationChanged ==
    \/ site_meta' # site_meta
    \/ policy_weights' # policy_weights
    \/ planning_context' # planning_context

\* the three were written from one set of widget values
WrittenTogether ==
    /\ policy_weights' = calculate_policy_weights(planning_context')
    /\ \A key \in {"five_year_supply", "housing_delivery", "local_plan_status"} :
           site_meta'[key] = planning_context'[key]

\* the report's conditional sentences follow the site_meta held now, whatever
\* site the stored harms were found for
ReportReadsCurrentSite ==
    current_assessment # None =>
        LET said == Sentences(Report)
        IN  /\ "The FRA should also highlight that brownfield redevelopment" \in said
                   <=> (Leading(flood_risk("3").title) /\ site_meta.brownfield)
            /\ "Since the area has a housing supply shortfall" \in said
                   <=> (/\ Leading(flood_risk("3").title)
                        /\ site_meta.five_year_supply \in {FiveYearSupplyOptions[2],
                                                           FiveYearSupplyOptions[3]})
            /\ "Highlight that remediation enables brownfield regeneration" \in said
                   <=> (Leading(contamination_risk_harm.title) /\ site_meta.brownfield)
            /\ "Even with good access" \in said
                   <=> (Leading(poor_access.title) /\ site_meta.good_access)
            /\ "High heritage sensitivity in local policy" \in said
                   <=> (Leading(heritage_asset_adjacency.title) /\ policy_weights.heritage > 120)

\* C12: a step that changes site_meta, policy_weights or planning_context (a
\* Save) writes the three together and leaves current_assessment, and so the
\* displayed scores, as they were; and in every state the recommendation text
\* follows the site_meta and policy_weights held now, not the ones the stored
\* assessment was computed from.
C12_SaveKeepsAssessment ==
    /\ [][ConfigurationChanged =>
              /\ WrittenTogether
              /\ current_assessment' = current_assessment
              /\ score_display(current_assessment') = score_display(current_assessment)]_vars
    /\ []ReportReadsCurrentSite

\* after a Run on a greenfield site in Flood Zone 3 and a Save that ticks
\* brownfield: the stored assessment has no brownfield benefit and is not the
\* saved site's, and the report speaks of brownfield redevelopment
C12_Witness ==
    /\ current_assessment # None
    /\ current_assessment # AssessmentOf(site_meta, policy_weights)
    /\ CountTitled(current_assessment.benefits, brownfield_regeneration.title) = 0
    /\ site_meta.brownfield
    /\ Says("The FRA should also highlight that brownfield redevelopment")

====
